---- MODULE Spec2Model ----
(***************************************************************************)
(* State machine of code_submission/model_lib/arma.py: the ARMA model      *)
(* adapter.  One ARMA object; an orchestrator calls trial(data, round_num) *)
(* with round_num = 1, 2, ... and predict() between calls.  trial is cut   *)
(* at its calls (init_model, train_valid, each epoch of the loop) so that  *)
(* a failure raised inside a call finds the state the calls before it      *)
(* left.                                                                   *)
(***************************************************************************)
EXTENDS Integers, Sequences, FiniteSets, TLC

VARIABLES
  pc,                       \* where the orchestrator's current call stands
  round_num,                \* round_num of the current (or last) trial call
  data,                     \* the data argument of the running trial call
  hyperparameters,          \* self.hyperparameters
  best_score,               \* self.best_score
  best_hp,                  \* self.best_hp
  current_round_best_preds, \* self.current_round_best_preds
  layers,                   \* the layer attributes of the module
  optimizer,                \* the parameters self.optimizer is bound to
  epoch,                    \* train_valid: epochs run
  patience,                 \* train_valid: patience
  best_valid_score,         \* train_valid: best_valid_score
  valid_acc_meter,          \* train_valid: valid_acc_meter
  valid_scores,             \* train_valid: the valid_score of each epoch run, in order
  last_forward,             \* the layers the last forward pass applied
  attempts,                 \* the calls of init_model and train_valid the running (or last) trial made
  tuner_calls,              \* the calls the running (or last) trial made on self.tuner
  result,                   \* how the last trial call ended
  predicted,                \* how predict() ended, called after the last trial call
  cached_test_mask,         \* the test mask of the data whose predictions are cached
  max_val_score             \* the highest val_score of the rounds completed so far

vars == <<pc, round_num, data, hyperparameters, best_score, best_hp,
          current_round_best_preds, layers, optimizer,
          epoch, patience, best_valid_score, valid_acc_meter, valid_scores,
          last_forward, attempts, tuner_calls, result, predicted,
          cached_test_mask, max_val_score>>

\* train_valid's locals; they die when trial is left
locals == <<epoch, patience, best_valid_score, valid_acc_meter, valid_scores>>

(***************************************************************************)
(* Bounds of the model.                                                    *)
(***************************************************************************)
\* rounds the orchestrator runs
MaxRounds == 2
\* nodes of the graph batch
NumNodes == 3
\* the epoch loop is explored with the patience budget cut to this cap
PatienceCap == 2
\* the epoch loop is explored with the epoch budget cut to this cap
EpochCap == 3

(***************************************************************************)
(* Program constants.                                                      *)
(***************************************************************************)
\* self.max_patience = 100
max_patience == 100
\* self.max_epochs = 1600
max_epochs == 1600

Min(a, b) == IF a < b THEN a ELSE b

\* the budgets the loop is run with in the model
PatienceBudget == Min(max_patience, PatienceCap)
EpochBudget == Min(max_epochs, EpochCap)

\* Python's None, and a present value, for an attribute that may be None
None == <<>>
Some(x) == <<x>>

(***************************************************************************)
(* Scores are rationals <<numerator, denominator>>: AverageMeter.avg is a  *)
(* quotient sum / count.                                                   *)
(***************************************************************************)
Zero == <<0, 1>>
Gt(a, b) == a[1] * b[2] > b[1] * a[2]

(***************************************************************************)
(* Inputs.                                                                 *)
(***************************************************************************)
\* the tuner's search space as far as it decides the architecture:
\* num_layers quniform [1, 3, 1], use_linear choice [True, False]
SearchSpace == [num_layers : 1..3, use_linear : BOOLEAN]

\* a mask with the nodes lo..hi set
Mask(lo, hi) == [i \in 1..NumNodes |-> lo <= i /\ i <= hi]

\* graph batches: disjoint train / valid / test masks over the nodes
Datasets ==
  { [train_mask |-> Mask(1, a), valid_mask |-> Mask(a + 1, a + b),
     test_mask |-> Mask(a + b + 1, NumNodes)] :
      <<a, b>> \in { p \in (1..NumNodes) \X (1..NumNodes) : p[1] + p[2] <= NumNodes } }

\* micro-F1 of one epoch on the validation mask (sklearn f1_score)
ValidScores == {0, 1}

\* what init_model can raise: accelerator out-of-memory, or KeyError on a
\* configuration without a key it reads
InitFailures == {"OOM", "KeyError"}

\* what a forward pass can raise: these, and a tensor shape mismatch
EpochFailures == {"OOM", "ShapeMismatch", "KeyError"}

\* the exception class of a failure: torch raises out-of-memory and shape
\* mismatches as RuntimeError
ExcClass(f) == IF f \in {"OOM", "ShapeMismatch"} THEN "RuntimeError" ELSE f

(***************************************************************************)
(* Tensors.                                                                *)
(***************************************************************************)
RECURSIVE SelectFrom(_, _, _)
SelectFrom(t, mask, i) ==
  IF i > Len(t) THEN <<>>
  ELSE (IF mask[i] THEN <<t[i]>> ELSE <<>>) \o SelectFrom(t, mask, i + 1)

\* t[mask]: the rows of t at the True entries of mask, in order
Index(t, mask) == SelectFrom(t, mask, 1)

\* the output of the evaluation pass of epoch e of round r: one row a node
Preds(r, e) == [i \in 1..NumNodes |-> [round |-> r, epoch |-> e, node |-> i]]

\* tensor.cpu().numpy()
ToNumpy(t) == [type |-> "ndarray", rows |-> t.rows]

(***************************************************************************)
(* init_model and forward.                                                 *)
(***************************************************************************)
Layer(kind, r) == [kind |-> kind, round |-> r]

RECURSIVE Repeat(_, _)
Repeat(x, n) == IF n <= 0 THEN <<>> ELSE <<x>> \o Repeat(x, n - 1)

NoLayers == [input_lin |-> None, convs |-> None, output_lin |-> None,
             conv1 |-> None, conv2 |-> None]

\* the layers of the ModuleList self.convs
ConvList(L) == IF L.convs = None THEN <<>> ELSE L.convs[1]

\* InitLayers with the convolution-only stack appended to the ModuleList
\* left on the module
InitLayersKeepConvs(hp, L, r) ==
  IF hp.use_linear
    THEN [L EXCEPT !.input_lin = Some(Layer("Linear", r)),
                   !.convs = Some(Repeat(Layer("ARMAConv", r), hp.num_layers)),
                   !.output_lin = Some(Layer("Linear", r))]
    ELSE IF hp.num_layers = 1
      THEN [L EXCEPT !.conv1 = Some(Layer("ARMAConv", r))]
      ELSE [L EXCEPT !.conv1 = Some(Layer("ARMAConv", r)),
                     !.convs = Some(ConvList(L) \o
                                    Repeat(Layer("ARMAConv", r), hp.num_layers - 2)),
                     !.conv2 = Some(Layer("ARMAConv", r))]

\* the module attributes after init_model in round r under configuration hp
InitLayers(hp, L, r) ==
  IF hp.use_linear
    THEN [L EXCEPT !.input_lin = Some(Layer("Linear", r)),
                   !.convs = Some(Repeat(Layer("ARMAConv", r), hp.num_layers)),
                   !.output_lin = Some(Layer("Linear", r))]
    ELSE IF hp.num_layers = 1
      THEN [L EXCEPT !.conv1 = Some(Layer("ARMAConv", r))]
      ELSE [L EXCEPT !.conv1 = Some(Layer("ARMAConv", r)),
                     !.convs = Some(Repeat(Layer("ARMAConv", r), hp.num_layers - 2)),
                     !.conv2 = Some(Layer("ARMAConv", r))]

\* self.parameters(): the layers registered on the module
Parameters(L) ==
  L.input_lin \o ConvList(L) \o L.output_lin \o L.conv1 \o L.conv2

\* Forward without the early return of a single convolution
ForwardNoEarlyReturn(hp, L) ==
  IF hp.use_linear
    THEN L.input_lin \o ConvList(L) \o L.output_lin
    ELSE L.conv1 \o ConvList(L) \o L.conv2

\* the layers one forward pass applies, in order
Forward(hp, L) ==
  IF hp.use_linear
    THEN L.input_lin \o ConvList(L) \o L.output_lin
    ELSE IF hp.num_layers = 1
      THEN L.conv1
      ELSE L.conv1 \o ConvList(L) \o L.conv2

(***************************************************************************)
(* Initial state: after ARMA(info).                                        *)
(***************************************************************************)
NoMeter == [sum |-> 0, count |-> 0]

\* no call of init_model or train_valid made
NoAttempts == [init_model |-> 0, train_valid |-> 0]

Init ==
  /\ pc = "idle"
  /\ round_num = 0
  /\ data = None
  /\ hyperparameters \in SearchSpace
  /\ best_score = Zero
  /\ best_hp = None
  /\ current_round_best_preds = None
  /\ layers = NoLayers
  /\ optimizer = None
  /\ epoch = 0
  /\ patience = 0
  /\ best_valid_score = Zero
  /\ valid_acc_meter = NoMeter
  /\ valid_scores = <<>>
  /\ last_forward = None
  /\ attempts = NoAttempts
  /\ tuner_calls = <<>>
  /\ result = None
  /\ predicted = None
  /\ cached_test_mask = None
  /\ max_val_score = Zero

(***************************************************************************)
(* trial                                                                   *)
(***************************************************************************)
\* the call a trial makes on the tuner to ask for the configuration of round
\* r, with the configuration the tuner answers
GenerateCall(r, hp) ==
  [op |-> "generate_parameters", idx |-> r - 1, hp |-> hp, score |-> Zero]

\* ReceiveCall with the round number as the index
ReceiveCallRoundIdx(r, hp, score) ==
  [op |-> "receive_trial_result", idx |-> r, hp |-> hp, score |-> score]

\* ReceiveCall with the score left out of the report
ReceiveCallZeroScore(r, hp, score) ==
  [op |-> "receive_trial_result", idx |-> r - 1, hp |-> hp, score |-> Zero]

\* the call a trial makes on the tuner to report a score in round r
ReceiveCall(r, hp, score) ==
  [op |-> "receive_trial_result", idx |-> r - 1, hp |-> hp, score |-> score]

\* AsksTuner with round 1 not exempted
AsksTunerAlways(r) == r >= 1

\* whether trial asks the tuner for the configuration of round r
AsksTuner(r) == r >= 2

\* ReportsTo with the guard off by one round
ReportsToLate(r) == r > 2

\* whether trial reports the outcome of round r to the tuner
ReportsTo(r) == r > 1

\* the orchestrator calls trial(data, round_num); in a round >= 2 the
\* configuration comes from tuner.generate_parameters(round_num - 1)
TrialCall ==
  /\ pc = "idle"
  /\ round_num < MaxRounds
  /\ \E d \in Datasets, h \in SearchSpace :
       LET r == round_num + 1 IN
       /\ round_num' = r
       /\ data' = Some(d)
       /\ hyperparameters' = IF AsksTuner(r) THEN h ELSE hyperparameters
       /\ tuner_calls' = IF AsksTuner(r) THEN <<GenerateCall(r, h)>> ELSE <<>>
  /\ pc' = "init_model"
  /\ result' = None
  /\ predicted' = None
  /\ last_forward' = None
  /\ attempts' = NoAttempts
  /\ UNCHANGED <<best_score, best_hp, current_round_best_preds, layers, optimizer,
                 locals, cached_test_mask, max_val_score>>

\* self.init_model(n_class, feature_num) returns
InitModel ==
  /\ pc = "init_model"
  /\ layers' = InitLayers(hyperparameters, layers, round_num)
  /\ optimizer' = Some(Parameters(layers'))
  /\ attempts' = [attempts EXCEPT !.init_model = @ + 1]
  /\ pc' = "train_valid"
  /\ UNCHANGED <<round_num, data, hyperparameters, best_score, best_hp,
                 current_round_best_preds, locals, last_forward, tuner_calls,
                 result, predicted, cached_test_mask, max_val_score>>

\* whether trial's except clause catches failure f
Caught(f) == ExcClass(f) = "RuntimeError"

\* when trial is left, the argument and train_valid's locals are gone
Leave ==
  IF pc' \in {"idle", "raised"}
    THEN /\ data' = None
         /\ epoch' = 0
         /\ patience' = 0
         /\ best_valid_score' = Zero
         /\ valid_acc_meter' = NoMeter
         /\ valid_scores' = <<>>
    ELSE UNCHANGED <<data, locals>>

\* AfterCatch without the return: the `while True` loop starts over
AfterCatchRetry == "init_model"

\* where control is after the except clause: `return 0` leaves trial
AfterCatch == "idle"

\* where control is after the try body: `break` leaves the `while True`
\* loop and trial returns val_score
AfterBreak == "idle"

\* a raised exception reaches trial's try: `except RuntimeError` reports 0 to
\* the tuner (round_num > 1) and returns 0; any other class leaves trial
Handle(f) ==
  /\ IF Caught(f)
       THEN /\ tuner_calls' = IF ReportsTo(round_num)
                 THEN Append(tuner_calls, ReceiveCall(round_num, hyperparameters, Zero))
                 ELSE tuner_calls
            /\ result' = Some([kind |-> "returned", value |-> Zero, cause |-> f])
            /\ pc' = AfterCatch
       ELSE /\ tuner_calls' = tuner_calls
            /\ result' = Some([kind |-> "raised", value |-> Zero, cause |-> f])
            /\ pc' = "raised"
  /\ Leave

\* init_model raises: while it builds the layers (nothing assigned yet) or
\* at self.to('cuda') (everything assigned, the optimizer bound)
InitModelRaise ==
  /\ pc = "init_model"
  /\ \E f \in InitFailures, built \in BOOLEAN :
       /\ layers' = IF built THEN InitLayers(hyperparameters, layers, round_num)
                    ELSE layers
       /\ optimizer' = IF built THEN Some(Parameters(layers')) ELSE optimizer
       /\ Handle(f)
  /\ attempts' = [attempts EXCEPT !.init_model = @ + 1]
  /\ UNCHANGED <<round_num, hyperparameters, best_score, best_hp,
                 current_round_best_preds, last_forward, predicted,
                 cached_test_mask, max_val_score>>

(***************************************************************************)
(* train_valid                                                             *)
(***************************************************************************)
\* the locals before the loop
TrainValidBegin ==
  /\ pc = "train_valid"
  /\ patience' = PatienceBudget
  /\ best_valid_score' = Zero
  /\ valid_acc_meter' = NoMeter
  /\ valid_scores' = <<>>
  /\ epoch' = 0
  /\ attempts' = [attempts EXCEPT !.train_valid = @ + 1]
  /\ pc' = IF EpochBudget = 0 THEN "train_return" ELSE "epoch"
  /\ UNCHANGED <<round_num, data, hyperparameters, best_score, best_hp,
                 current_round_best_preds, layers, optimizer, last_forward,
                 tuner_calls, result, predicted, cached_test_mask, max_val_score>>

\* AverageMeter.update(val) and .avg
MeterUpdate(m, v) == [sum |-> m.sum + v, count |-> m.count + 1]
MeterAvg(m) == <<m.sum, m.count>>

\* Improves with 0 in the place of the best so far
ImprovesOnZero(avg, best) == Gt(avg, Zero)

\* Improves with a tie counted as a new best
ImprovesOrTies(avg, best) == ~Gt(best, avg)

\* whether the smoothed score is a new best
Improves(avg, best) == Gt(avg, best)

\* Decrement by two
DecrementTwice(p) == p - 2

\* the patience counter after an epoch that set no new best
Decrement(p) == p - 1

\* LoopEnds without the break
LoopEndsNoBreak(p, e) == e >= EpochBudget

\* whether the loop is left after an epoch: break on patience == 0, or
\* range(self.max_epochs) exhausted
LoopEnds(p, e) == p = 0 \/ e >= EpochBudget

\* TestPreds indexed by the validation mask
TestPredsByValidMask(preds, d) == Index(preds, d.valid_mask)

\* the rows cached on a new best: preds[test_mask]
TestPreds(preds, d) == Index(preds, d.test_mask)

\* one epoch of the loop: the training step, the evaluation pass, the meter,
\* the patience rule
TrainEpoch ==
  /\ pc = "epoch"
  /\ \E v \in ValidScores :
       LET e == epoch + 1
           m == MeterUpdate(valid_acc_meter, v)
           test_preds == [device |-> "cuda",
                          rows |-> TestPreds(Preds(round_num, e), data[1])]
           better == Improves(MeterAvg(m), best_valid_score)
           p == IF better THEN PatienceBudget ELSE Decrement(patience)
       IN /\ valid_acc_meter' = m
          /\ valid_scores' = Append(valid_scores, v)
          /\ last_forward' = Some(Forward(hyperparameters, layers))
          /\ best_valid_score' = IF better THEN MeterAvg(m) ELSE best_valid_score
          /\ current_round_best_preds' =
               IF better THEN Some(test_preds) ELSE current_round_best_preds
          /\ cached_test_mask' =
               IF better THEN Some(data[1].test_mask) ELSE cached_test_mask
          /\ patience' = p
          /\ epoch' = e
          /\ pc' = IF LoopEnds(p, e) THEN "train_return" ELSE "epoch"
  /\ UNCHANGED <<round_num, data, hyperparameters, best_score, best_hp, layers,
                 optimizer, attempts, tuner_calls, result, predicted,
                 max_val_score>>

\* a forward pass of the next epoch raises
TrainEpochRaise ==
  /\ pc = "epoch"
  /\ \E f \in EpochFailures : Handle(f)
  /\ UNCHANGED <<round_num, hyperparameters, best_score, best_hp,
                 current_round_best_preds, layers, optimizer, last_forward,
                 attempts, predicted, cached_test_mask, max_val_score>>

\* NextBestScore as an assignment of the round's score
NextBestScoreAssigned(old, val) == val

\* self.best_score after a round that returned val: trial never assigns it
NextBestScore(old, val) == old

\* NewBest with a tie counted as better
NewBestOrTie(val, best) == ~Gt(best, val)

\* whether the round's configuration becomes best_hp: val_score > self.best_score
NewBest(val, best) == Gt(val, best)

\* train_valid returns val_score; trial reports it, keeps the configuration
\* if it is a new best, and returns it
TrialReturn ==
  /\ pc = "train_return"
  /\ LET val_score == best_valid_score IN
       /\ tuner_calls' = IF ReportsTo(round_num)
            THEN Append(tuner_calls, ReceiveCall(round_num, hyperparameters, val_score))
            ELSE tuner_calls
       /\ best_hp' = IF NewBest(val_score, best_score)
                       THEN Some(hyperparameters) ELSE best_hp
       /\ best_score' = NextBestScore(best_score, val_score)
       /\ result' = Some([kind |-> "returned", value |-> val_score, cause |-> "none"])
       /\ max_val_score' = IF Gt(val_score, max_val_score) THEN val_score
                           ELSE max_val_score
  /\ pc' = AfterBreak
  /\ Leave
  /\ UNCHANGED <<round_num, hyperparameters, current_round_best_preds,
                 layers, optimizer, last_forward, attempts, predicted,
                 cached_test_mask>>

(***************************************************************************)
(* predict                                                                 *)
(***************************************************************************)
\* self.current_round_best_preds.cpu().numpy(); None has no cpu()
PredictOf(cache) ==
  IF cache = None
    THEN [kind |-> "raised", value |-> [type |-> "AttributeError", rows |-> <<>>]]
    ELSE [kind |-> "returned", value |-> ToNumpy(cache[1])]

Predict ==
  /\ pc = "idle"
  /\ predicted = None
  /\ predicted' = Some(PredictOf(current_round_best_preds))
  /\ UNCHANGED <<pc, round_num, data, hyperparameters, best_score, best_hp,
                 current_round_best_preds, layers, optimizer, locals,
                 last_forward, attempts, tuner_calls, result, cached_test_mask,
                 max_val_score>>

Next ==
  \/ TrialCall
  \/ InitModel
  \/ InitModelRaise
  \/ TrainValidBegin
  \/ TrainEpoch
  \/ TrainEpochRaise
  \/ TrialReturn
  \/ Predict

Spec == Init /\ [][Next]_vars

(***************************************************************************)
(* Properties.                                                             *)
(***************************************************************************)
Range(s) == {s[i] : i \in 1..Len(s)}

\* a trial call is running
InRound == pc \in {"init_model", "train_valid", "epoch", "train_return"}

\* the last trial call returned after failure f was caught
ReturnedAfter(f) ==
  /\ pc = "idle"
  /\ result # None
  /\ result[1].kind = "returned"
  /\ result[1].cause = f

\* the last trial call returned train_valid's score
Succeeded == ReturnedAfter("none")

\* the step in which failure f, raised in init_model or train_valid, is caught
CatchStep(f) ==
  /\ pc \in {"init_model", "epoch"}
  /\ pc' = "idle"
  /\ result'[1].cause = f

\* C1: when out-of-memory is raised during init_model or train_valid of a
\* round r > 1, trial returns 0, the tuner has received a result with score 0
\* for index r - 1, and no step of the call, from its start to the return,
\* has changed best_score or best_hp.
C1_Step ==
  /\ (pc # "train_return" => best_hp' = best_hp /\ best_score' = best_score)
  /\ (CatchStep("OOM") /\ round_num > 1 =>
        /\ result'[1].kind = "returned"
        /\ result'[1].value = Zero
        /\ round_num' = round_num
        /\ \E i \in 1..Len(tuner_calls') :
             /\ tuner_calls'[i].op = "receive_trial_result"
             /\ tuner_calls'[i].idx = round_num - 1
             /\ tuner_calls'[i].score = Zero)
C1_OOMReturnsZero == [][C1_Step]_vars

\* a round r > 1 has ended in a caught out-of-memory while a best
\* configuration of an earlier round, another than this round's, was held
C1_Witness ==
  /\ ReturnedAfter("OOM")
  /\ round_num > 1
  /\ best_hp # None
  /\ best_hp # Some(hyperparameters)

\* C2: best_hp is replaced by the round's configuration only when the round's
\* validation score is strictly greater than the best validation score of all
\* earlier rounds.
C2_Step ==
  (pc = "train_return" /\ best_hp' # best_hp) => Gt(best_valid_score, max_val_score)
C2_ReplacedOnlyByBetter == [][C2_Step]_vars

\* C3: best_score is never lower after a step than it was before it.
C3_Step == ~Gt(best_score, best_score')
C3_BestScoreMonotone == [][C3_Step]_vars

\* a round has completed with a score below that of an earlier round
C3_Witness ==
  /\ Succeeded
  /\ round_num > 1
  /\ Gt(max_val_score, result[1].value)

\* C4: the patience counter is never negative, and the epoch loop runs on
\* only while patience is above 0 and fewer epochs than the budget have run:
\* it is left at the epoch where patience reaches 0 or after the last epoch
\* of the budget, whichever comes first.
C4_PatienceAndTermination ==
  /\ patience >= 0
  /\ epoch <= EpochBudget
  /\ EpochBudget <= max_epochs
  /\ (pc = "epoch" => patience > 0 /\ epoch < EpochBudget)
  /\ (pc = "train_return" => patience = 0 \/ epoch = EpochBudget)

\* the loop has stopped on patience 0 before the epoch budget was used up
C4_Witness ==
  /\ pc = "train_return"
  /\ patience = 0
  /\ epoch < EpochBudget

\* C5: after a round that failed with out-of-memory, an earlier round having
\* succeeded with a score above 0, predict() returns no prediction produced
\* by the failed round.
C5_NoPartialResults ==
  (/\ ReturnedAfter("OOM")
   /\ best_hp # None
   /\ predicted # None
   /\ predicted[1].kind = "returned") =>
    \A row \in Range(predicted[1].value.rows) : row.round # round_num

\* the calls of kind op among the calls made on the tuner
CallsOf(calls, op) == {i \in 1..Len(calls) : calls[i].op = op}

\* C6: round 1 keeps the constructor's configuration and asks the tuner for
\* nothing; a round r > 1 asks the tuner once, first of all, with index r - 1,
\* and the answer is self.hyperparameters from then to the end of the round,
\* the configuration the layers are built from.
C6_Step ==
  /\ (round_num = 0 /\ round_num' = 1 => hyperparameters' = hyperparameters)
  /\ (InRound' /\ round_num' = 1 => CallsOf(tuner_calls', "generate_parameters") = {})
  /\ (InRound' /\ round_num' > 1 =>
        /\ CallsOf(tuner_calls', "generate_parameters") = {1}
        /\ tuner_calls'[1].idx = round_num' - 1
        /\ tuner_calls'[1].hp = hyperparameters')
  /\ (InRound => hyperparameters' = hyperparameters)
  /\ (pc' \in {"train_valid", "epoch", "train_return"} =>
        layers' = InitLayers(hyperparameters', layers', round_num'))
C6_ConfigurationPerRound == [][C6_Step]_vars

\* a round r > 1 has trained to the end of its loop
C6_Witness ==
  /\ pc = "train_return"
  /\ round_num > 1
  /\ epoch > 1

\* C7 as stated: after every successful round, round 1 included, the tuner
\* has been given the round's validation score.
C7_ReportsEveryRound ==
  Succeeded =>
    \E i \in CallsOf(tuner_calls, "receive_trial_result") :
      tuner_calls[i].score = result[1].value

\* C7 amended: after a successful round r > 1 the last call on the tuner is
\* the report of the round's validation score and configuration under index
\* r - 1, the only report of the round; after a successful round 1 no call
\* has been made on the tuner.
C7_ReportsFromRoundTwo ==
  Succeeded =>
    IF round_num > 1
      THEN LET n == Len(tuner_calls) IN
           /\ CallsOf(tuner_calls, "receive_trial_result") = {n}
           /\ tuner_calls[n].idx = round_num - 1
           /\ tuner_calls[n].hp = hyperparameters
           /\ tuner_calls[n].score = result[1].value
      ELSE tuner_calls = <<>>

\* a round r > 1 has succeeded with a score above 0
C7_Witness ==
  /\ Succeeded
  /\ round_num > 1
  /\ Gt(result[1].value, Zero)

\* C8: a failure other than out-of-memory leaves trial as an exception, and
\* nothing is reported to the tuner for the round.
C8_OnlyOOMCaught ==
  (result # None /\ result[1].cause \notin {"OOM", "none"}) =>
    /\ result[1].kind = "raised"
    /\ CallsOf(tuner_calls, "receive_trial_result") = {}

\* the convolution layers among the layers applied
ConvCount(applied) == Cardinality({i \in 1..Len(applied) : applied[i].kind = "ARMAConv"})

\* C9: a forward pass applies exactly num_layers convolution layers; with
\* num_layers = 1 and use_linear false it applies one convolution and nothing
\* else.
C9_ForwardDepth ==
  last_forward # None =>
    LET applied == last_forward[1] IN
    /\ ConvCount(applied) = hyperparameters.num_layers
    /\ (~hyperparameters.use_linear /\ hyperparameters.num_layers = 1 =>
          Len(applied) = 1 /\ applied[1].kind = "ARMAConv")

\* a single convolution has been applied while the layers of a deeper
\* configuration of an earlier round are still attributes of the module
C9_Witness ==
  /\ last_forward # None
  /\ ~hyperparameters.use_linear
  /\ hyperparameters.num_layers = 1
  /\ layers.conv2 # None
  /\ ConvList(layers) # <<>>

RECURSIVE CountFrom(_, _)
CountFrom(mask, i) ==
  IF i > Len(mask) THEN 0
  ELSE (IF mask[i] THEN 1 ELSE 0) + CountFrom(mask, i + 1)

\* number of True entries of a mask
CountTrue(mask) == CountFrom(mask, 1)

\* C10: what predict() returns has as many rows as the test mask of the data
\* of the round that cached the predictions has True entries.
C10_PredictLength ==
  (predicted # None /\ predicted[1].kind = "returned") =>
    Len(predicted[1].value.rows) = CountTrue(cached_test_mask[1])

\* predict() has returned rows cached by an earlier round than the last
C10_Witness ==
  /\ predicted # None
  /\ predicted[1].kind = "returned"
  /\ Len(predicted[1].value.rows) > 0
  /\ predicted[1].value.rows[1].round < round_num

RECURSIVE SumTo(_, _)
\* the sum of the first k scores
SumTo(scores, k) == IF k = 0 THEN 0 ELSE SumTo(scores, k - 1) + scores[k]

\* the running average after epoch k: the mean of the scores of epochs 1..k
RunningAvg(scores, k) == <<SumTo(scores, k), k>>

\* x is the greatest running average of the epochs run, or 0 when none is
\* above 0
IsBestSmoothed(x, scores) ==
  /\ \A k \in 1..Len(scores) : ~Gt(RunningAvg(scores, k), x)
  /\ \/ x = Zero
     \/ \E k \in 1..Len(scores) : x = RunningAvg(scores, k)

\* C11: when the loop is left, best_valid_score is the greatest running
\* average over the epochs run (0 if none exceeded 0), and the trial call
\* returns this value.
C11_Step ==
  pc = "train_return" =>
    /\ Len(valid_scores) = epoch
    /\ IsBestSmoothed(best_valid_score, valid_scores)
    /\ result'[1].kind = "returned"
    /\ result'[1].value = best_valid_score
C11_ReturnsBestSmoothed == [][C11_Step]_vars

\* the loop has been left with a best smoothed score above the running
\* average of the last epoch
C11_Witness ==
  /\ pc = "train_return"
  /\ Gt(best_valid_score, MeterAvg(valid_acc_meter))

\* the rows of tensor t are predictions of epoch e of round r
FromEpoch(t, r, e) == \A row \in Range(t.rows) : row.round = r /\ row.epoch = e

\* two scores are the same number
Same(a, b) == ~Gt(a, b) /\ ~Gt(b, a)

\* C12: an epoch overwrites the cached predictions, with its own, exactly
\* when its running average strictly exceeds the best so far, and leaves the
\* cache alone otherwise; when the loop is left with a score above 0 the
\* cached predictions are those of the first epoch whose running average
\* equals that score.
C12_Step ==
  /\ (pc = "epoch" /\ epoch' = epoch + 1 =>
        LET avg == RunningAvg(valid_scores', epoch') IN
        IF Gt(avg, best_valid_score)
          THEN /\ current_round_best_preds' # None
               /\ FromEpoch(current_round_best_preds'[1], round_num, epoch')
               /\ Len(current_round_best_preds'[1].rows) = CountTrue(data[1].test_mask)
               /\ best_valid_score' = avg
          ELSE /\ current_round_best_preds' = current_round_best_preds
               /\ best_valid_score' = best_valid_score)
  /\ (pc = "train_return" /\ Gt(best_valid_score, Zero) =>
        /\ current_round_best_preds # None
        /\ \E k \in 1..Len(valid_scores) :
             /\ Same(RunningAvg(valid_scores, k), best_valid_score)
             /\ \A j \in 1..(k - 1) : ~Same(RunningAvg(valid_scores, j), best_valid_score)
             /\ FromEpoch(current_round_best_preds[1], round_num, k))
C12_CacheFollowsBest == [][C12_Step]_vars

\* the loop has been left with predictions cached by an epoch that is
\* neither the first nor the last one run
C12_Witness ==
  /\ pc = "train_return"
  /\ current_round_best_preds # None
  /\ Len(current_round_best_preds[1].rows) > 0
  /\ current_round_best_preds[1].rows[1].round = round_num
  /\ current_round_best_preds[1].rows[1].epoch > 1
  /\ current_round_best_preds[1].rows[1].epoch < epoch

\* the running average of epoch k is strictly greater than 0 and than the
\* running average of every epoch before it
Improved(scores, k) ==
  /\ Gt(RunningAvg(scores, k), Zero)
  /\ \A j \in 1..(k - 1) : Gt(RunningAvg(scores, k), RunningAvg(scores, j))

RECURSIVE IdleRunFrom(_, _)
\* the number of consecutive epochs without a new best that end at epoch k
IdleRunFrom(scores, k) ==
  IF k = 0 \/ Improved(scores, k) THEN 0 ELSE 1 + IdleRunFrom(scores, k - 1)

\* the number of consecutive epochs without a new best up to the last one run
IdleRun(scores) == IdleRunFrom(scores, Len(scores))

\* C13: max_patience is 100 and max_epochs 1600; patience starts at the
\* patience budget, an epoch whose running average is a new best sets it
\* back to the budget and every other epoch lowers it by exactly 1; so the
\* loop goes on while fewer consecutive epochs without a new best than the
\* patience budget have run and epochs of the epoch budget are left, and is
\* left at the end of the first such run as long as the patience budget, or
\* else after the last epoch of the epoch budget.
C13_Step ==
  /\ max_patience = 100
  /\ max_epochs = 1600
  /\ (pc = "train_valid" => patience' = PatienceBudget /\ epoch' = 0)
  /\ (pc = "epoch" /\ epoch' = epoch + 1 =>
        patience' = IF Improved(valid_scores', epoch')
                      THEN PatienceBudget ELSE patience - 1)
  /\ (pc \in {"epoch", "train_return"} =>
        patience = PatienceBudget - IdleRun(valid_scores))
  /\ (pc = "epoch" =>
        IdleRun(valid_scores) < PatienceBudget /\ epoch < EpochBudget)
  /\ (pc = "train_return" =>
        IF IdleRun(valid_scores) = PatienceBudget
          THEN epoch <= EpochBudget
          ELSE epoch = EpochBudget)
C13_EarlyStopping == [][C13_Step]_vars

\* the loop has run all epochs of the budget, the last of them a new best
C13_Witness ==
  /\ pc = "train_return"
  /\ epoch = EpochBudget
  /\ patience = PatienceBudget
  /\ IdleRun(valid_scores) = 0

\* C14: a trial call calls init_model at most once and train_valid at most
\* once, and once it has an outcome (a score returned, on success or after a
\* caught failure, or an exception) it is not running any more.
C14_NoRetry ==
  /\ attempts.init_model <= 1
  /\ attempts.train_valid <= 1
  /\ (result # None => ~InRound)
  /\ (pc \in {"idle", "raised"} /\ round_num > 0 => result # None)

\* a trial call has returned after an out-of-memory failure in train_valid
C14_Witness ==
  /\ ReturnedAfter("OOM")
  /\ attempts.init_model = 1
  /\ attempts.train_valid = 1

\* the model is built and train_valid is running or has returned
Built == pc \in {"train_valid", "epoch", "train_return"}

\* C15: after init_model in round r, the layers registered on the module,
\* and the layers the optimizer is bound to, are all layers created in round r.
C15_OnlyFreshLayersRegistered ==
  Built =>
    /\ \A l \in Range(Parameters(layers)) : l.round = round_num
    /\ \A l \in Range(optimizer[1]) : l.round = round_num

\* C16: every layer a forward pass of round r applies was created by the
\* init_model of round r.
C16_ForwardAppliesFreshLayers ==
  last_forward # None =>
    \A l \in Range(last_forward[1]) : l.round = round_num

\* a forward pass of several layers has run in a round r > 1 while a layer of
\* an earlier round is still registered on the module
C16_Witness ==
  /\ last_forward # None
  /\ round_num > 1
  /\ Len(last_forward[1]) > 1
  /\ \E l \in Range(Parameters(layers)) : l.round < round_num

\* C17: after a trial call whose training completed without error the cached
\* test predictions are not None and a following predict() returns an array,
\* whatever validation scores the round observed.
C17_CacheSetAfterSuccess ==
  Succeeded =>
    /\ current_round_best_preds # None
    /\ (predicted # None => predicted[1].kind = "returned")

\* the last trial call has returned
Returned == pc = "idle" /\ result # None /\ result[1].kind = "returned"

\* C18: when trial returns in a round r > 1, on success or after a caught
\* failure, the tuner has been asked for index r - 1 and has then received
\* exactly one result, for index r - 1, with the configuration it generated
\* and the score trial returns; a failed round 1 reports nothing.
C18_RequestReportPairing ==
  /\ (Returned /\ round_num > 1 =>
        /\ Len(tuner_calls) = 2
        /\ tuner_calls[1].op = "generate_parameters"
        /\ tuner_calls[1].idx = round_num - 1
        /\ tuner_calls[2].op = "receive_trial_result"
        /\ tuner_calls[2].idx = round_num - 1
        /\ tuner_calls[2].hp = tuner_calls[1].hp
        /\ tuner_calls[2].score = result[1].value)
  /\ (Returned /\ round_num = 1 /\ result[1].cause # "none" =>
        CallsOf(tuner_calls, "receive_trial_result") = {})

\* a round r > 1 has returned a score above 0 and reported it
C18_Witness ==
  /\ Succeeded
  /\ round_num > 1
  /\ Gt(result[1].value, Zero)
  /\ Len(tuner_calls) = 2

\* C19: best_hp is None at first and changes only when a round completes
\* training without error with a validation score above 0, to the
\* configuration of that round; a failed round, a round scoring 0 and the
\* tuner replacing self.hyperparameters leave it as it is.
C19_Step ==
  /\ (round_num = 0 => best_hp = None)
  /\ (best_hp' # best_hp =>
        /\ pc = "train_return"
        /\ Gt(best_valid_score, Zero)
        /\ best_hp' = Some(hyperparameters)
        /\ result'[1].kind = "returned"
        /\ result'[1].cause = "none"
        /\ result'[1].value = best_valid_score)
  /\ (pc = "train_return" /\ ~Gt(best_valid_score, Zero) => best_hp' = best_hp)
  /\ (pc # "train_return" => best_hp' = best_hp)
C19_BestHpFromScoringRound == [][C19_Step]_vars

\* a later round under another configuration has failed or scored 0 and
\* best_hp still holds the earlier round's configuration
C19_Witness ==
  /\ Returned
  /\ round_num > 1
  /\ result[1].value = Zero
  /\ best_hp # None
  /\ best_hp[1] # hyperparameters

====
